---- MODULE Spec2Model ----
(***************************************************************************)
(* Model of the two diagnostic scripts of ZAP Quantum Vault:               *)
(*   check_database.py   : find_database() and check_database()            *)
(*   test_trust_levels.py: test_trust_levels()                             *)
(* The store is a single-file relational database: a set of tables, each    *)
(* a set of rows.  A connection sees its own uncommitted writes (txn);      *)
(* commit() makes them durable (rows); close() discards what is pending.    *)
(***************************************************************************)
EXTENDS Integers, Sequences, FiniteSets, TLC

VARIABLES
    fs,           \* filesystem: path -> "none" | "file" | "dir"
    deepRoot,     \* for each non-candidate path, the search pattern matching it
    tables,       \* names of the tables present in the store
    rows,         \* committed rows: table name -> set of rows
    txn,          \* rows as seen through the open connection
    conn,         \* "none" | "open" | "closed"
    pc,           \* position of the running script
    run,          \* number of the current run of the script
    now,          \* test_trust_levels: the timestamp written
    result,       \* test_trust_levels: cursor.fetchone() of the verification read
    trust_count,  \* test_trust_levels: COUNT(*) of usb_drive_trust, -1 unset
    pwd_count,    \* test_trust_levels: COUNT(*) of usb_drive_passwords, -1 unset
    err,          \* the step whose statement raised, "" when none did
    printed,      \* the messages written to standard output
    pre,          \* the committed rows when the run started
    db_path,      \* check_database: the value find_database() returned
    tablesListed, \* check_database: the fetched list of all table names
    count,        \* check_database: COUNT(*) of usb_drive_passwords, -1 unset
    passwords,    \* check_database: the fetched recent entries
    user_count,   \* check_database: COUNT(*) of users, -1 unset
    users,        \* check_database: the fetched sample of users
    catalogFound, \* tables a catalog query found present
    dataQueried   \* tables a data query was issued against

vars == <<fs, deepRoot, tables, rows, txn, conn, pc, run, now, result,
          trust_count, pwd_count, err, printed, pre, db_path, tablesListed,
          count, passwords, user_count, users, catalogFound, dataQueried>>

(***************************************************************************)
(* Bounds of the model.                                                    *)
(***************************************************************************)
MaxTime == 2        \* timestamps written by the runs are 1..MaxTime
MaxRuns == 2        \* the script is run at most MaxRuns times
NumDeep == 1        \* paths other than the fixed candidates
MaxEntries == 2     \* filesystem entries that exist at once
MaxUsers == 1       \* rows of the users table

(***************************************************************************)
(* The store.                                                              *)
(***************************************************************************)
TRUST == "usb_drive_trust"
PASSWORDS == "usb_drive_passwords"
USERS == "users"
EXTRA == "vaults"
ExpectedTables == {PASSWORDS, TRUST, USERS}
TableNames == ExpectedTables \cup {EXTRA}

PrimaryKey(r) == r.id

\* sqlite raises "no such table" for a statement naming an absent table
NoSuchTable(t) == t \notin tables

\* INSERT OR REPLACE: the rows in conflict with the new row on the primary key
\* are deleted, then the new row is inserted
\* faulty variant: a plain insert that keeps the row in conflict
InsertOrReplace_Append(table, r) == table \cup {r}

InsertOrReplace(table, r) ==
    {x \in table : PrimaryKey(x) # PrimaryKey(r)} \cup {r}

\* SELECT * FROM t WHERE drive_id = ?
\* faulty variant: the filter compares the wrong column
SelectByDrive_ByPath(table, d) == {x \in table : x.device_path = d}

SelectByDrive(table, d) == {x \in table : x.drive_id = d}

\* cursor.fetchone(): the first row of the result, in an order the query does
\* not fix; the empty set stands for None
FetchOne(matching) ==
    IF matching = {} THEN {{}} ELSE {{x} : x \in matching}

\* SELECT COUNT(*) FROM t
\* faulty variant: counts distinct drives instead of rows
CountRows_Drives(table) == Cardinality({x.drive_id : x \in table})

CountRows(table) == Cardinality(table)

(***************************************************************************)
(* test_trust_levels.py                                                    *)
(***************************************************************************)
test_drive_id == "usb_sde1"
test_trust_level == "trusted"
TestUser == "admin"

DevicePath(d) ==
    CASE d = "usb_sde1" -> "/dev/sde1"
      [] d = "usb_sdb1" -> "/dev/sdb1"
      [] OTHER -> "/dev/" \o d

TrustId(d) == "trust_" \o d
PwdId(d) == "pwd_" \o d

TrustRow(d, t) ==
    [id |-> TrustId(d), user_id |-> TestUser, drive_id |-> d,
     device_path |-> DevicePath(d), drive_label |-> "TEST_DRIVE",
     trust_level |-> test_trust_level, created_at |-> t, updated_at |-> t]

PwdRow(d, t) ==
    [id |-> PwdId(d), user_id |-> TestUser, drive_id |-> d,
     device_path |-> DevicePath(d), drive_label |-> "TEST_DRIVE",
     encrypted_password |-> "encrypted_test_password",
     password_hint |-> "test hint", created_at |-> t, updated_at |-> t]

\* The rows a store can hold before the first run: a row left by an earlier run
\* of this script, and a row written by the application under its own id
UserIds == {TestUser, "bob"}
DriveIds == {test_drive_id, "usb_sdb1"}
AppId == "app_1"

AppTrustRow(u, d) ==
    [id |-> AppId, user_id |-> u, drive_id |-> d,
     device_path |-> DevicePath(d), drive_label |-> "APP_DRIVE",
     trust_level |-> "untrusted", created_at |-> 0, updated_at |-> 0]

AppPwdRow(u, d) ==
    [id |-> AppId, user_id |-> u, drive_id |-> d,
     device_path |-> DevicePath(d), drive_label |-> "APP_DRIVE",
     encrypted_password |-> "encrypted_app_password",
     password_hint |-> "app hint", created_at |-> 0, updated_at |-> 0]

\* at most one row per primary key, the constraint the table declares
KeyUnique(table) ==
    \A x, y \in table : PrimaryKey(x) = PrimaryKey(y) => x = y

\* at most one row per (user_id, drive_id)
PairUnique(table) ==
    \A x, y \in table :
        (x.user_id = y.user_id /\ x.drive_id = y.drive_id) => x = y

PriorTrustTables ==
    {t \in SUBSET ({TrustRow(test_drive_id, 0)}
                   \cup {AppTrustRow(u, d) : u \in UserIds, d \in DriveIds}) :
        KeyUnique(t) /\ PairUnique(t)}

PriorPwdTables ==
    {t \in SUBSET ({PwdRow(test_drive_id, 0)}
                   \cup {AppPwdRow(u, d) : u \in UserIds, d \in DriveIds}) :
        KeyUnique(t) /\ PairUnique(t)}

Kinds == {"none", "file", "dir"}
NumCandidates == 6
Candidates == 1..NumCandidates
Deep == (NumCandidates + 1)..(NumCandidates + NumDeep)
Paths == Candidates \cup Deep
NoPath == 0

\* Path.home() / '.local/share/com.zap-vault/vault.db'
TestDbPath == 1

checkVars == <<deepRoot, db_path, tablesListed, count, passwords, user_count,
               users, catalogFound>>
testVars == <<now, result, trust_count, pwd_count>>

InitTest ==
    /\ \E k \in Kinds : fs = [p \in Paths |-> IF p = TestDbPath THEN k ELSE "none"]
    /\ deepRoot = [p \in Deep |-> 1]
    /\ tables \in SUBSET {TRUST, PASSWORDS}
    /\ \E tr \in PriorTrustTables, pw \in PriorPwdTables :
        rows = [t \in TableNames |->
                  IF t = TRUST /\ TRUST \in tables THEN tr
                  ELSE IF t = PASSWORDS /\ PASSWORDS \in tables THEN pw
                  ELSE {}]
    /\ txn = rows
    /\ pre = rows
    /\ conn = "none"
    /\ pc = "t_start"
    /\ run = 1
    /\ now = 0
    /\ result = {}
    /\ trust_count = -1
    /\ pwd_count = -1
    /\ err = ""
    /\ printed = {}
    /\ db_path = NoPath
    /\ tablesListed = {}
    /\ count = -1
    /\ passwords = {}
    /\ user_count = -1
    /\ users = {}
    /\ catalogFound = {}
    /\ dataQueried = {}

\* try: ... except Exception as e: the statement that raises hands control to
\* the one handler of the function
TrustSteps == {"trust_insert", "trust_commit", "trust_read"}

\* faulty variant: a failure in the trust check resumes at the password check
TestHandler_PerTable(step) ==
    IF step \in TrustSteps THEN "t_pwd_insert" ELSE "t_except"

TestHandler(step) == "t_except"

TestRaise(step) ==
    /\ err' = step
    /\ pc' = TestHandler(step)

\* lines 10-14: the existence test of the fixed path
T_CheckExists ==
    /\ pc = "t_start"
    /\ IF fs[TestDbPath] = "none"
       THEN /\ printed' = printed \cup {"Database not found"}
            /\ pc' = "done"
       ELSE /\ printed' = printed
            /\ pc' = "t_connect"
    /\ UNCHANGED <<fs, tables, rows, txn, conn, run, err, pre, testVars, dataQueried, checkVars>>

\* lines 16-22: sqlite3.connect outside the try; a path that is not a file
\* cannot be opened and the exception ends the script
T_Connect ==
    /\ pc = "t_connect"
    /\ IF fs[TestDbPath] = "file"
       THEN /\ conn' = "open"
            /\ txn' = rows
            /\ pre' = rows
            /\ \E t \in 1..MaxTime : t >= now /\ now' = t
            /\ pc' = "t_trust_insert"
            /\ UNCHANGED <<err, printed>>
       ELSE /\ err' = "connect"
            /\ printed' = printed \cup {"Traceback"}
            /\ pc' = "done"
            /\ UNCHANGED <<conn, txn, pre, now>>
    /\ UNCHANGED <<fs, tables, rows, run, result, trust_count, pwd_count, dataQueried, checkVars>>

\* lines 26-39: INSERT OR REPLACE INTO usb_drive_trust
T_TrustInsert ==
    /\ pc = "t_trust_insert"
    /\ \E ok \in BOOLEAN :
        IF ok /\ ~NoSuchTable(TRUST)
        THEN /\ txn' = [txn EXCEPT ![TRUST] =
                          InsertOrReplace(@, TrustRow(test_drive_id, now))]
             /\ pc' = "t_commit1"
             /\ err' = err
        ELSE /\ TestRaise("trust_insert")
             /\ txn' = txn
    /\ dataQueried' = dataQueried \cup {TRUST}
    /\ UNCHANGED <<fs, tables, rows, conn, run, printed, pre, testVars, checkVars>>

\* lines 41-42: conn.commit()
T_Commit1 ==
    /\ pc = "t_commit1"
    /\ \E ok \in BOOLEAN :
        IF ok
        THEN /\ rows' = txn
             /\ printed' = printed \cup {"Successfully inserted test trust level"}
             /\ pc' = "t_trust_read"
             /\ err' = err
        ELSE /\ TestRaise("trust_commit")
             /\ UNCHANGED <<rows, printed>>
    /\ UNCHANGED <<fs, tables, txn, conn, run, pre, testVars, dataQueried, checkVars>>

\* lines 45-51: the verification read of usb_drive_trust by drive_id
T_TrustRead ==
    /\ pc = "t_trust_read"
    /\ \E ok \in BOOLEAN :
        IF ok
        THEN /\ \E r \in FetchOne(SelectByDrive(txn[TRUST], test_drive_id)) :
                  /\ result' = r
                  /\ printed' = printed \cup
                        {IF r # {} THEN "Trust level entry found"
                         ELSE "Trust level entry not found after insertion"}
             /\ pc' = "t_pwd_insert"
             /\ err' = err
        ELSE /\ TestRaise("trust_read")
             /\ UNCHANGED <<result, printed>>
    /\ UNCHANGED <<fs, tables, rows, txn, conn, run, pre, now, trust_count,
                   pwd_count, dataQueried, checkVars>>

\* lines 54-68: INSERT OR REPLACE INTO usb_drive_passwords
T_PwdInsert ==
    /\ pc = "t_pwd_insert"
    /\ \E ok \in BOOLEAN :
        IF ok /\ ~NoSuchTable(PASSWORDS)
        THEN /\ txn' = [txn EXCEPT ![PASSWORDS] =
                          InsertOrReplace(@, PwdRow(test_drive_id, now))]
             /\ pc' = "t_commit2"
             /\ err' = err
        ELSE /\ TestRaise("pwd_insert")
             /\ txn' = txn
    /\ dataQueried' = dataQueried \cup {PASSWORDS}
    /\ UNCHANGED <<fs, tables, rows, conn, run, printed, pre, testVars, checkVars>>

\* lines 70-71: conn.commit()
T_Commit2 ==
    /\ pc = "t_commit2"
    /\ \E ok \in BOOLEAN :
        IF ok
        THEN /\ rows' = txn
             /\ printed' = printed \cup {"Successfully inserted test password"}
             /\ pc' = "t_counts"
             /\ err' = err
        ELSE /\ TestRaise("pwd_commit")
             /\ UNCHANGED <<rows, printed>>
    /\ UNCHANGED <<fs, tables, txn, conn, run, pre, testVars, dataQueried, checkVars>>

\* lines 74-82: the two COUNT(*) queries and the status lines
T_Counts ==
    /\ pc = "t_counts"
    /\ \E failing \in 0..2 :
        /\ trust_count' = IF failing = 1 THEN trust_count
                          ELSE CountRows(txn[TRUST])
        /\ pwd_count' = IF failing = 0 THEN CountRows(txn[PASSWORDS])
                        ELSE pwd_count
        /\ IF failing = 0
           THEN /\ printed' = printed \cup {"Database status"}
                /\ pc' = "t_finally"
                /\ err' = err
           ELSE /\ TestRaise(IF failing = 1 THEN "trust_count" ELSE "pwd_count")
                /\ printed' = printed
    /\ UNCHANGED <<fs, tables, rows, txn, conn, run, pre, now, result, dataQueried, checkVars>>

\* lines 84-85: except Exception as e
T_Except ==
    /\ pc = "t_except"
    /\ printed' = printed \cup {"Database operation failed"}
    /\ pc' = "t_finally"
    /\ UNCHANGED <<fs, tables, rows, txn, conn, run, err, pre, testVars, dataQueried, checkVars>>

\* lines 86-87: finally: conn.close(); what was not committed is rolled back
T_Finally ==
    /\ pc = "t_finally"
    /\ conn' = "closed"
    /\ txn' = rows
    /\ pc' = "done"
    /\ UNCHANGED <<fs, tables, rows, run, err, printed, pre, testVars, dataQueried, checkVars>>

\* lines 89-90: the script is run again on the store the last run left
T_Rerun ==
    /\ pc = "done"
    /\ run < MaxRuns
    /\ run' = run + 1
    /\ pc' = "t_start"
    /\ conn' = "none"
    /\ result' = {}
    /\ trust_count' = -1
    /\ pwd_count' = -1
    /\ err' = ""
    /\ printed' = {}
    /\ dataQueried' = {}
    /\ UNCHANGED <<fs, tables, rows, txn, pre, now, checkVars>>

NextTest ==
    \/ T_CheckExists
    \/ T_Connect
    \/ T_TrustInsert
    \/ T_Commit1
    \/ T_TrustRead
    \/ T_PwdInsert
    \/ T_Commit2
    \/ T_Counts
    \/ T_Except
    \/ T_Finally
    \/ T_Rerun

SpecTest == InitTest /\ [][NextTest]_vars

(***************************************************************************)
(* check_database.py                                                       *)
(***************************************************************************)
NumPatterns == 4
Patterns == 1..NumPatterns
RecentLimit == 5
SampleLimit == 3

Min(a, b) == IF a <= b THEN a ELSE b

\* Path.exists(): true of a directory as of a file
Exists(p) == fs[p] # "none"

\* glob.glob(pattern, recursive=True): the entries under the pattern's root;
\* reached only when no fixed candidate exists
GlobMatches(pattern) == {p \in Deep : Exists(p) /\ deepRoot[p] = pattern}

\* find_database(): the values it can return (matches[0] is the first match in
\* the traversal order of the filesystem, which the code does not fix)
\* faulty variant: falls back to ./vault.db instead of None
find_database_Default ==
    IF \E c \in Candidates : Exists(c)
    THEN {CHOOSE c \in Candidates :
            Exists(c) /\ \A c2 \in Candidates : Exists(c2) => c <= c2}
    ELSE IF \E g \in Patterns : GlobMatches(g) # {}
    THEN GlobMatches(CHOOSE g \in Patterns :
            GlobMatches(g) # {} /\ \A g2 \in Patterns : GlobMatches(g2) # {} => g <= g2)
    ELSE {5}

find_database ==
    IF \E c \in Candidates : Exists(c)
    THEN {CHOOSE c \in Candidates :
            Exists(c) /\ \A c2 \in Candidates : Exists(c2) => c <= c2}
    ELSE IF \E g \in Patterns : GlobMatches(g) # {}
    THEN GlobMatches(CHOOSE g \in Patterns :
            GlobMatches(g) # {} /\ \A g2 \in Patterns : GlobMatches(g2) # {} => g <= g2)
    ELSE {NoPath}

\* SELECT name FROM sqlite_master WHERE type='table' AND name=?
\* faulty variant: the catalog query reports every table present
CatalogHas_Always(t) == TRUE

CatalogHas(t) == t \in tables

\* SELECT name FROM sqlite_master WHERE type='table'
CatalogTables == tables

\* ORDER BY created_at DESC LIMIT 5: the results the query can give
Recent(table) ==
    {S \in SUBSET table :
        /\ Cardinality(S) = Min(RecentLimit, Cardinality(table))
        /\ \A x \in S, y \in table \ S : x.created_at >= y.created_at}

\* SELECT ... FROM users LIMIT 3
Sample(table) ==
    {S \in SUBSET table : Cardinality(S) = Min(SampleLimit, Cardinality(table))}

UserRow(i) == [id |-> i, username |-> "user", email |-> "user@example.com"]

CheckPwdTables ==
    {{}, {PwdRow(test_drive_id, 0)},
     {PwdRow(test_drive_id, 0), AppPwdRow("bob", "usb_sdb1")}}

CheckUserTables == {{}, {UserRow(i) : i \in 1..MaxUsers}}

InitCheck ==
    /\ fs \in [Paths -> Kinds]
    /\ Cardinality({p \in Paths : Exists(p)}) <= MaxEntries
    /\ deepRoot \in [Deep -> Patterns]
    /\ \A p \in Deep : ~Exists(p) => deepRoot[p] = 1
    /\ tables \in SUBSET TableNames
    /\ \E pw \in CheckPwdTables, us \in CheckUserTables :
        rows = [t \in TableNames |->
                  IF t \notin tables THEN {}
                  ELSE IF t = PASSWORDS THEN pw
                  ELSE IF t = USERS THEN us
                  ELSE IF t = TRUST THEN {TrustRow(test_drive_id, 0)}
                  ELSE {}]
    /\ txn = rows
    /\ pre = rows
    /\ conn = "none"
    /\ pc = "c_start"
    /\ run = 1
    /\ now = 0
    /\ result = {}
    /\ trust_count = -1
    /\ pwd_count = -1
    /\ err = ""
    /\ printed = {}
    /\ db_path = NoPath
    /\ tablesListed = {}
    /\ count = -1
    /\ passwords = {}
    /\ user_count = -1
    /\ users = {}
    /\ catalogFound = {}
    /\ dataQueried = {}

\* try: ... except Exception as e, lines 61 and 130
CheckRaise(msg) ==
    /\ err' = msg
    /\ pc' = "c_except"

storeVars == <<fs, deepRoot, tables, rows>>

\* lines 46-59: find_database() and the report of its result
C_Find ==
    /\ pc = "c_start"
    /\ \E p \in find_database :
        /\ db_path' = p
        /\ IF p = NoPath
           THEN /\ printed' = {"Database not found in common locations",
                               "Searched locations"}
                /\ pc' = "done"
           ELSE /\ printed' = {"Database found"}
                /\ pc' = "c_connect"
    /\ UNCHANGED <<storeVars, txn, conn, run, err, pre, testVars, tablesListed,
                   count, passwords, user_count, users, catalogFound, dataQueried>>

\* lines 62-63: sqlite3.connect inside the try; a directory cannot be opened
C_Connect ==
    /\ pc = "c_connect"
    /\ IF fs[db_path] = "dir"
       THEN /\ CheckRaise("unable to open database file")
            /\ UNCHANGED <<conn, txn>>
       ELSE /\ conn' = "open"
            /\ txn' = rows
            /\ pc' = "c_catalog"
            /\ err' = err
    /\ UNCHANGED <<storeVars, run, printed, pre, testVars, db_path, tablesListed,
                   count, passwords, user_count, users, catalogFound, dataQueried>>

\* lines 66-72 and 81: the catalog query for usb_drive_passwords
C_Catalog ==
    /\ pc = "c_catalog"
    /\ \E ok \in BOOLEAN :
        IF ~ok
        THEN /\ CheckRaise("catalog query failed")
             /\ UNCHANGED <<printed, catalogFound>>
        ELSE /\ err' = err
             /\ IF CatalogHas(PASSWORDS)
                THEN /\ printed' = printed \cup {"usb_drive_passwords table exists"}
                     /\ catalogFound' = catalogFound \cup {PASSWORDS}
                     /\ pc' = "c_schema"
                ELSE /\ printed' = printed \cup {"usb_drive_passwords table not found"}
                     /\ catalogFound' = catalogFound
                     /\ pc' = "c_list"
    /\ UNCHANGED <<storeVars, txn, conn, run, pre, testVars, db_path, tablesListed,
                   count, passwords, user_count, users, dataQueried>>

\* lines 75-79: the list of all tables
C_ListTables ==
    /\ pc = "c_list"
    /\ \E ok \in BOOLEAN :
        IF ~ok
        THEN /\ CheckRaise("catalog query failed")
             /\ UNCHANGED <<printed, tablesListed>>
        ELSE /\ err' = err
             /\ tablesListed' = CatalogTables
             /\ printed' = printed \cup {"Available tables"}
             /\ pc' = "c_users_count"
    /\ UNCHANGED <<storeVars, txn, conn, run, pre, testVars, db_path,
                   count, passwords, user_count, users, catalogFound, dataQueried>>

\* lines 84-88: PRAGMA table_info
C_Schema ==
    /\ pc = "c_schema"
    /\ \E ok \in BOOLEAN :
        IF ~ok
        THEN /\ CheckRaise("schema query failed")
             /\ printed' = printed
        ELSE /\ err' = err
             /\ printed' = printed \cup {"Table schema"}
             /\ pc' = "c_count"
    /\ UNCHANGED <<storeVars, txn, conn, run, pre, testVars, db_path, tablesListed,
                   count, passwords, user_count, users, catalogFound, dataQueried>>

\* lines 91-95: SELECT COUNT(*) FROM usb_drive_passwords
\* faulty variant: the count step also empties the table
C_Count_Purge ==
    /\ pc = "c_count"
    /\ err' = err
    /\ count' = CountRows(txn[PASSWORDS])
    /\ rows' = [rows EXCEPT ![PASSWORDS] = {}]
    /\ txn' = rows'
    /\ printed' = printed \cup {"Stored passwords"}
    /\ pc' = IF count' > 0 THEN "c_recent" ELSE "c_users_count"
    /\ dataQueried' = dataQueried \cup {PASSWORDS}
    /\ UNCHANGED <<fs, deepRoot, tables, conn, run, pre, testVars, db_path,
                   tablesListed, passwords, user_count, users, catalogFound>>

C_Count ==
    /\ pc = "c_count"
    /\ \E ok \in BOOLEAN :
        IF ~ok \/ NoSuchTable(PASSWORDS)
        THEN /\ CheckRaise(IF ok THEN "no such table: usb_drive_passwords"
                           ELSE "data query failed")
             /\ UNCHANGED <<printed, count>>
        ELSE /\ err' = err
             /\ count' = CountRows(txn[PASSWORDS])
             /\ printed' = printed \cup {"Stored passwords"}
             /\ pc' = IF count' > 0 THEN "c_recent" ELSE "c_users_count"
    /\ dataQueried' = dataQueried \cup {PASSWORDS}
    /\ UNCHANGED <<storeVars, txn, conn, run, pre, testVars, db_path, tablesListed,
                   passwords, user_count, users, catalogFound>>

\* lines 96-115: the most recent entries
C_Recent ==
    /\ pc = "c_recent"
    /\ \E ok \in BOOLEAN :
        IF ~ok \/ NoSuchTable(PASSWORDS)
        THEN /\ CheckRaise(IF ok THEN "no such table: usb_drive_passwords"
                           ELSE "data query failed")
             /\ UNCHANGED <<printed, passwords>>
        ELSE /\ err' = err
             /\ \E S \in Recent(txn[PASSWORDS]) : passwords' = S
             /\ printed' = printed \cup {"Recent entries"}
             /\ pc' = "c_users_count"
    /\ dataQueried' = dataQueried \cup {PASSWORDS}
    /\ UNCHANGED <<storeVars, txn, conn, run, pre, testVars, db_path, tablesListed,
                   count, user_count, users, catalogFound>>

\* lines 118-120: SELECT COUNT(*) FROM users, with no catalog query before it
C_UsersCount ==
    /\ pc = "c_users_count"
    /\ \E ok \in BOOLEAN :
        IF ~ok \/ NoSuchTable(USERS)
        THEN /\ CheckRaise(IF ok THEN "no such table: users"
                           ELSE "data query failed")
             /\ UNCHANGED <<printed, user_count>>
        ELSE /\ err' = err
             /\ user_count' = CountRows(txn[USERS])
             /\ printed' = printed \cup {"Users in database"}
             /\ pc' = "c_users_sample"
    /\ dataQueried' = dataQueried \cup {USERS}
    /\ UNCHANGED <<storeVars, txn, conn, run, pre, testVars, db_path, tablesListed,
                   count, passwords, users, catalogFound>>

\* lines 122-126: SELECT id, username, email FROM users LIMIT 3
C_UsersSample ==
    /\ pc = "c_users_sample"
    /\ \E ok \in BOOLEAN :
        IF ~ok \/ NoSuchTable(USERS)
        THEN /\ CheckRaise(IF ok THEN "no such table: users"
                           ELSE "data query failed")
             /\ UNCHANGED <<printed, users>>
        ELSE /\ err' = err
             /\ \E S \in Sample(txn[USERS]) : users' = S
             /\ printed' = printed \cup {"Sample users"}
             /\ pc' = "c_close"
    /\ dataQueried' = dataQueried \cup {USERS}
    /\ UNCHANGED <<storeVars, txn, conn, run, pre, testVars, db_path, tablesListed,
                   count, passwords, user_count, catalogFound>>

\* line 128: conn.close(), the last statement of the try block
C_Close ==
    /\ pc = "c_close"
    /\ conn' = "closed"
    /\ txn' = rows
    /\ pc' = "done"
    /\ UNCHANGED <<storeVars, run, err, printed, pre, testVars, db_path,
                   tablesListed, count, passwords, user_count, users,
                   catalogFound, dataQueried>>

\* lines 130-131: except Exception as e: the error is printed and the function
\* returns; the handler does not close the connection
C_Except ==
    /\ pc = "c_except"
    /\ printed' = printed \cup {"Database error"}
    /\ pc' = "done"
    /\ UNCHANGED <<storeVars, txn, conn, run, err, pre, testVars, db_path,
                   tablesListed, count, passwords, user_count, users,
                   catalogFound, dataQueried>>

NextCheck ==
    \/ C_Find
    \/ C_Connect
    \/ C_Catalog
    \/ C_ListTables
    \/ C_Schema
    \/ C_Count
    \/ C_Recent
    \/ C_UsersCount
    \/ C_UsersSample
    \/ C_Close
    \/ C_Except

SpecCheck == InitCheck /\ [][NextCheck]_vars

(***************************************************************************)
(* Properties of check_database, checked under SpecCheck.                  *)
(***************************************************************************)
\* C1: a script that opened a connection has closed it when it ends
C1_ConnectionClosed ==
    pc = "done" => conn # "open"

\* C6: the path find_database returns is a regular file, and while a fixed
\* candidate is a regular file the first such candidate is what it returns
C6_FirstRegularFile ==
    (pc # "c_start" /\ db_path # NoPath) =>
        /\ fs[db_path] = "file"
        /\ \A c \in Candidates : fs[c] = "file" =>
              (db_path \in Candidates /\ db_path <= c)

\* C7: with no entry at any candidate path and no glob match, find_database
\* returns None without raising, and check_database reports the locations
\* searched and ends with no connection opened
C7_NotFound ==
    (pc # "c_start" /\ \A p \in Paths : ~Exists(p)) =>
        /\ db_path = NoPath
        /\ err = ""
        /\ pc = "done"
        /\ conn = "none"
        /\ printed = {"Database not found in common locations", "Searched locations"}

C7_Witness ==
    /\ pc = "done"
    /\ \A p \in Paths : ~Exists(p)
    /\ USERS \in tables
    /\ "Searched locations" \in printed

StatementFailures ==
    {"catalog query failed", "schema query failed", "data query failed"}

\* C8 as stated: each expected table is queried for data only after a catalog
\* query found it, and a run on a store that opens and lacks an expected table
\* ends with the list of the tables present and without a database error
C8_Original ==
    /\ \A t \in ExpectedTables : t \in dataQueried => t \in catalogFound
    /\ (/\ pc = "done"
        /\ conn # "none"
        /\ ExpectedTables \ tables # {}
        /\ err \notin StatementFailures)
       => /\ "Database error" \notin printed
          /\ tablesListed = tables

\* C8 amended: usb_drive_passwords is queried for data only after the catalog
\* query found it, and when the catalog query does not find it the list taken
\* is exactly the tables present; users is queried with no catalog query, so
\* its absence ends the run with a database error; usb_drive_trust is never
\* examined
C8_PasswordsOnly ==
    /\ PASSWORDS \in dataQueried => (PASSWORDS \in catalogFound /\ PASSWORDS \in tables)
    /\ "Available tables" \in printed =>
          (tablesListed = tables /\ PASSWORDS \notin tables /\ PASSWORDS \notin dataQueried)
    /\ catalogFound \subseteq {PASSWORDS}
    /\ TRUST \notin dataQueried
    /\ (pc = "done" /\ USERS \in dataQueried /\ USERS \notin tables) =>
          (/\ err \in {"no such table: users", "data query failed"}
           /\ "Database error" \in printed)

C8_Witness ==
    /\ pc = "done"
    /\ tables = {TRUST, EXTRA}
    /\ tablesListed = tables
    /\ "usb_drive_passwords table not found" \in printed
    /\ "Database error" \in printed

\* C10: no step of check_database changes the filesystem, the set of tables
\* or the rows of any table
C10_ReadOnly ==
    [][fs' = fs /\ deepRoot' = deepRoot /\ tables' = tables /\ rows' = rows]_vars

C10_Witness ==
    /\ pc = "done"
    /\ conn = "closed"
    /\ count = 2
    /\ Cardinality(passwords) = 2
    /\ user_count = MaxUsers
    /\ rows = pre

(***************************************************************************)
(* Properties of test_trust_levels, checked under SpecTest.                *)
(***************************************************************************)
WithId(table, i) == {r \in table : PrimaryKey(r) = i}

\* C2: when the trust upsert is committed on a store that already holds a row
\* with id trust_<drive_id> carrying an earlier updated_at, exactly one row
\* with that id is left and it carries the later updated_at
C2_UpsertIdempotent ==
    (/\ pc = "t_trust_read"
     /\ \E r \in WithId(pre[TRUST], TrustId(test_drive_id)) : r.updated_at < now)
    => /\ Cardinality(WithId(rows[TRUST], TrustId(test_drive_id))) = 1
       /\ \A r \in WithId(rows[TRUST], TrustId(test_drive_id)) : r.updated_at = now

C2_Witness ==
    /\ run = 2
    /\ pc = "t_trust_read"
    /\ \E r \in WithId(pre[TRUST], TrustId(test_drive_id)) :
        r.updated_at >= 1 /\ r.updated_at < now

\* C3: usb_drive_trust and usb_drive_passwords each hold at most one row per
\* (user_id, drive_id) pair in every reachable state
C3_PairUnique ==
    PairUnique(rows[TRUST]) /\ PairUnique(rows[PASSWORDS])

\* C4 as stated: the read after the trust commit matches exactly one row, the
\* row just written, and a read after the password commit returns the password
\* row just written
C4_Original ==
    /\ pc = "t_pwd_insert" =>
         /\ SelectByDrive(txn[TRUST], test_drive_id) = {TrustRow(test_drive_id, now)}
         /\ result = {TrustRow(test_drive_id, now)}
    /\ pc = "t_counts" => result = {PwdRow(test_drive_id, now)}

\* C4 amended: the read after the trust commit returns a row of the drive and
\* the row just written is among the rows that match; after the password
\* commit the row just written, with its hint, is in usb_drive_passwords
C4_ReadFindsWrittenRow ==
    /\ pc = "t_pwd_insert" =>
         /\ result # {}
         /\ \A r \in result : r.drive_id = test_drive_id /\ r \in rows[TRUST]
         /\ TrustRow(test_drive_id, now) \in SelectByDrive(txn[TRUST], test_drive_id)
    /\ pc = "t_counts" =>
         /\ \E r \in SelectByDrive(rows[PASSWORDS], test_drive_id) :
              r = PwdRow(test_drive_id, now) /\ r.password_hint = "test hint"
         /\ \A r \in result : r \in rows[TRUST]

C4_Witness ==
    /\ pc = "t_counts"
    /\ result # {}
    /\ result # {TrustRow(test_drive_id, now)}
    /\ Cardinality(SelectByDrive(rows[TRUST], test_drive_id)) = 2

\* C5 as stated: a completed run leaves both counts one greater than before
C5_Original ==
    "Database status" \in printed =>
        /\ trust_count = Cardinality(pre[TRUST]) + 1
        /\ pwd_count = Cardinality(pre[PASSWORDS]) + 1

\* C5 amended: a completed run leaves each count one greater than before when
\* the table held no row with the id written, and unchanged when it did
C5_CountDelta ==
    "Database status" \in printed =>
        /\ trust_count = Cardinality(pre[TRUST]) +
              (IF WithId(pre[TRUST], TrustId(test_drive_id)) = {} THEN 1 ELSE 0)
        /\ pwd_count = Cardinality(pre[PASSWORDS]) +
              (IF WithId(pre[PASSWORDS], PwdId(test_drive_id)) = {} THEN 1 ELSE 0)

C5_Witness ==
    /\ "Database status" \in printed
    /\ run = 2
    /\ trust_count = Cardinality(pre[TRUST])
    /\ pwd_count = Cardinality(pre[PASSWORDS]) + 1

\* C9 as stated: after a failure in the usb_drive_trust check the
\* usb_drive_passwords check is still carried out and the counts are reported
C9_Original ==
    (pc = "done" /\ err \in TrustSteps) =>
        /\ PASSWORDS \in dataQueried
        /\ "Database status" \in printed

\* C9 amended: a failure in the usb_drive_trust check ends the whole run: no
\* statement is issued against usb_drive_passwords, no count is taken, one
\* failure is reported and the connection is closed
C9_FailureEndsRun ==
    (pc = "done" /\ err \in TrustSteps) =>
        /\ PASSWORDS \notin dataQueried
        /\ rows[PASSWORDS] = pre[PASSWORDS]
        /\ trust_count = -1 /\ pwd_count = -1
        /\ "Database status" \notin printed
        /\ "Database operation failed" \in printed
        /\ conn = "closed"

C9_Witness ==
    /\ pc = "done"
    /\ err = "trust_read"
    /\ PASSWORDS \in tables
    /\ TrustRow(test_drive_id, now) \in rows[TRUST]

====
